---- MODULE Spec2Model ----
(***************************************************************************)
(* A model of ttr (src/main.rs): the Task/Group tree and its merge         *)
(* (merge_groups), the navigation state machine (select_task), and the     *)
(* execution controller of main with its interrupt handler.                *)
(***************************************************************************)
EXTENDS Integers, Sequences, FiniteSets, TLC

VARIABLES
    roots,          \* the Vec<Group> read_tasks returned (main, line 158)
    tasks,          \* main's `tasks`: the merged tree
    opts,           \* the command line flags (struct Opts)
    pc,             \* position of the main thread
    status_line,    \* main's status_line: Option<String>
    stack,          \* select_task's stack of groups
    error,          \* select_task's error: Option<String>
    key,            \* the last KeyEvent next_key_event returned
    task,           \* the task select_task returned
    screen_cleared, \* whether the current run cleared the screen (lines 179-181)
    process,        \* pid of the Child create_process returned (0: none yet)
    exit_status,    \* the ExitStatus process.wait() returned
    running_pid,    \* the shared AtomicI32 (0: none)
    procs,          \* the operating system's view of the children, by pid
    hpc,            \* position of the ctrlc handler thread
    hpid,           \* the pid the handler loaded
    kills,          \* the pids signal::kill has been called with
    raw_mode,       \* whether a RawMode guard is alive (terminal in raw mode)
    alt_screen,     \* whether an AlternateScreen guard is alive
    menu_status,    \* the status line the menu last printed (lines 445-448)
    files,          \* the directories that hold a config file
    start_dir,      \* read_tasks: current_dir()
    home_dir,       \* read_tasks: dirs::home_dir()
    config_dir,     \* read_tasks: dirs::config_dir()
    dir,            \* read_tasks: the directory the walk is at
    rpc,            \* position of read_tasks
    parsed,         \* read_tasks's Vec of roots, each named by its file's path
    parent_env,     \* the environment of the controller process
    spawn_task,     \* create_process: the env and clear_env fields of its task
    command,        \* create_process: the Command being built
    child_env,      \* the environment the spawned child sees
    epc,            \* position of create_process
    config,         \* tasks_from_file: the Group being iterated and rewritten
    it_groups,      \* TaskIterator::groups
    it_tasks,       \* TaskIterator::tasks
    yielded,        \* the tasks the iterator returned so far, in order
    ipc             \* position of the loop over the iterator (lines 326-330)

mainVars == <<opts, pc, status_line, task, screen_cleared, process, exit_status>>
navVars == <<stack, error, key>>
procVars == <<running_pid, procs>>
handlerVars == <<hpc, hpid, kills>>
termVars == <<raw_mode, alt_screen, menu_status>>
readVars == <<files, start_dir, home_dir, config_dir, dir, rpc, parsed>>
envVars == <<parent_env, spawn_task, command, child_env, epc>>
iterVars == <<config, it_groups, it_tasks, yielded, ipc>>
auxVars == <<readVars, envVars, iterVars>>
vars == <<roots, tasks, mainVars, navVars, procVars, handlerVars, termVars, auxVars>>

\* Option<T>
None == <<>>
Some(x) == <<x>>

-----------------------------------------------------------------------------
(* Entity model: struct Task, struct Group                                 *)

\* struct Task, with the fields the controller reads. cmd is the command
\* line; distinct numbers stand for distinct command strings.
Task(name, k, cmd, confirm, clear) ==
    [name |-> name, key |-> k, cmd |-> cmd, confirm |-> confirm, clear |-> clear]

\* struct Group
Group(name, k, groups, tasks_) ==
    [name |-> name, key |-> k, groups |-> groups, tasks |-> tasks_]

\* #[derive(Default)] for Group: empty name, key '\0', no children
GroupDefault == Group("", "NUL", <<>>, <<>>)

\* The synthetic identity tasks_from_file gives every parsed file
ROOT_NAME == "ROOT"
ROOT_KEY == "_"

\* Group::is_empty
is_empty(g) == g.tasks = <<>> /\ g.groups = <<>>

-----------------------------------------------------------------------------
(* merge_groups                                                            *)

\* All orders in which HashMap::into_values may yield the entries of a map
\* whose key set is S: every enumeration of S without repetition.
Perms(S) ==
    {p \in [1..Cardinality(S) -> S] :
        \A i, j \in 1..Cardinality(S) : i # j => p[i] # p[j]}

\* lines 265-269: keep the groups with the first group's name and key
FilterPeers(groups) ==
    SelectSeq(groups, LAMBDA g : g.name = groups[1].name /\ g.key = groups[1].key)

\* lines 275-278: similar_groups.entry(key).or_default().push(child_group)
PushGroup(similar_groups, child_group) ==
    LET bucket == IF child_group.key \in DOMAIN similar_groups
                  THEN similar_groups[child_group.key] ELSE <<>>
    IN  (child_group.key :> Append(bucket, child_group)) @@ similar_groups

\* A faulty test: a group never shadows a task
KeyNeverBound(similar_groups, t) == FALSE

\* line 282: the key is already bound to a group
KeyBoundToGroup(similar_groups, t) == t.key \in DOMAIN similar_groups

\* A faulty insert: HashMap::insert, where the later task replaces the earlier
InsertTaskOverwrite(task_map, t) == (t.key :> t) @@ task_map

\* line 286: tasks.entry(task.key).or_insert(task)
InsertTask(task_map, t) == task_map @@ (t.key :> t)

\* lines 274-279, from the i-th child group on
RECURSIVE RegisterGroups(_, _, _)
RegisterGroups(similar_groups, child_groups, i) ==
    IF i > Len(child_groups) THEN similar_groups
    ELSE RegisterGroups(PushGroup(similar_groups, child_groups[i]), child_groups, i + 1)

\* lines 281-287, from the i-th task on
RECURSIVE RegisterTasks(_, _, _, _)
RegisterTasks(similar_groups, task_map, child_tasks, i) ==
    IF i > Len(child_tasks) THEN task_map
    ELSE IF KeyBoundToGroup(similar_groups, child_tasks[i])
         THEN RegisterTasks(similar_groups, task_map, child_tasks, i + 1)
         ELSE RegisterTasks(similar_groups, InsertTask(task_map, child_tasks[i]),
                            child_tasks, i + 1)

\* lines 273-288: the loop over the peers, from the i-th peer on
RECURSIVE MergeLoop(_, _, _, _)
MergeLoop(peers, i, similar_groups, task_map) ==
    IF i > Len(peers) THEN [similar_groups |-> similar_groups, tasks |-> task_map]
    ELSE LET sg == RegisterGroups(similar_groups, peers[i].groups, 1)
             tm == RegisterTasks(sg, task_map, peers[i].tasks, 1)
         IN  MergeLoop(peers, i + 1, sg, tm)

\* fn merge_groups: the set of Groups the call may return (one for each order
\* in which the two HashMaps yield their values)
RECURSIVE merge_groups(_)
merge_groups(groups) ==
    IF groups = <<>> THEN {GroupDefault}
    ELSE LET peers == FilterPeers(groups) IN
         IF Len(peers) = 1 THEN {peers[1]}
         ELSE LET acc == MergeLoop(peers, 1, <<>>, <<>>)
                  gkeys == DOMAIN acc.similar_groups
                  tkeys == DOMAIN acc.tasks
                  sub == [k \in gkeys |-> merge_groups(acc.similar_groups[k])]
                  choices == {f \in [gkeys -> UNION {sub[k] : k \in gkeys}] :
                                 \A k \in gkeys : f[k] \in sub[k]}
              IN  {Group(peers[1].name, peers[1].key,
                         [i \in 1..Cardinality(gkeys) |-> f[gp[i]]],
                         [i \in 1..Cardinality(tkeys) |-> acc.tasks[tp[i]]]) :
                     f \in choices, gp \in Perms(gkeys), tp \in Perms(tkeys)}

-----------------------------------------------------------------------------
(* Inputs of the merge: config trees                                       *)

MaxRoots == 2
Keys == {"a", "b"}
GroupNames == {"g", "h"}

\* Key sequences of the tasks of a root / of a child group
RootTaskKeys == UNION {[1..n -> Keys] : n \in 0..2}
ChildTaskKeys == UNION {[1..n -> {"a"}] : n \in 0..1}

\* The tasks of one config file. Every task gets a command of its own, made of
\* the file's index f, the enclosing child group's position g (0: the root) and
\* the task's position, so that tasks of different origin are told apart.
TasksOf(keys, f, g) ==
    [j \in 1..Len(keys) |-> Task("t", keys[j], 100 * f + 10 * g + j, FALSE, FALSE)]

ChildShapes == [name : GroupNames, key : Keys, tasks : ChildTaskKeys]
RootShapes == [groups : UNION {[1..n -> ChildShapes] : n \in 0..1}, tasks : RootTaskKeys]

\* The Root tasks_from_file builds for the f-th file (lines 314-323)
RootOf(shape, f) ==
    Group(ROOT_NAME, ROOT_KEY,
          [g \in 1..Len(shape.groups) |->
              Group(shape.groups[g].name, shape.groups[g].key, <<>>,
                    TasksOf(shape.groups[g].tasks, f, g))],
          TasksOf(shape.tasks, f, 0))

-----------------------------------------------------------------------------
(* Key events (crossterm KeyEvent: code and modifiers)                     *)

Char(c) == <<"Char", c>>
Enter == <<"Enter">>
Esc == <<"Esc">>
Backspace == <<"Backspace">>
F1 == <<"F1">>

KeyEvent(code, modifiers) == [code |-> code, modifiers |-> modifiers]

\* KeyModifiers::CONTROL alone
CONTROL == {"CONTROL"}

\* The key presses the model draws from: the characters the code names, the
\* keys of the configured items, an unbound character, the named keys, and a
\* character pressed with Control and with Control+Shift.
KeyChars == {"q", " ", "r", "s", "a", "b", "x"}
KeyEvents ==
    {KeyEvent(Char(c), {}) : c \in KeyChars}
    \cup {KeyEvent(c, {}) : c \in {Enter, Esc, Backspace, F1}}
    \cup {KeyEvent(Char("a"), m) : m \in {CONTROL, {"CONTROL", "SHIFT"}}}

\* No key read yet
NoKey == KeyEvent(<<"None">>, {})

-----------------------------------------------------------------------------
(* select_task: one iteration of its loop is one step                      *)

\* A faulty quit test: Esc quits too, as it does in confirm_task
QuitKeyOrEsc(ev) == ev.code = Char("q") \/ ev.code = Esc

\* line 484: KeyCode::Char('q')
QuitKey(ev) == ev.code = Char("q")

\* A faulty root test: off by one
AtRootOffByOne(s) == Len(s) <= 2

\* line 486: stack.len() <= 1
AtRoot(s) == Len(s) <= 1

\* line 491: KeyCode::Char(ch) if modifiers != KeyModifiers::CONTROL
CharKey(ev) == ev.code[1] = "Char" /\ ev.modifiers # CONTROL

\* Iterator::find on a Vec of tasks or groups: the index of the first item
\* with the key, 0 when there is none
FindKey(items, ch) ==
    LET I == {i \in 1..Len(items) : items[i].key = ch}
    IN  IF I = {} THEN 0 ELSE CHOOSE i \in I : \A j \in I : i <= j

\* A faulty guard: dropping it leaves the terminal as it was
Leaked(on) == on

\* Drop for AlternateScreen (lines 133-138) and Drop for RawMode (lines
\* 149-154): the state of the terminal mode once its guard is dropped
Dropped(on) == FALSE

\* A faulty start: the group is on the stack twice
NewStackTwice(group) == <<group, group>>

\* line 437: let mut stack = vec![group]
NewStack(group) == <<group>>

\* line 437-441: select_task is entered; AlternateScreen::enter (lines
\* 126-130) switches the terminal to the alternate screen
SelectEnter ==
    /\ pc = "select_loop"
    /\ stack' = NewStack(tasks)
    /\ error' = None
    /\ alt_screen' = TRUE
    /\ pc' = "select"
    /\ UNCHANGED <<roots, tasks, opts, status_line, key, task, screen_cleared,
                   process, exit_status, procVars, handlerVars, raw_mode,
                   menu_status, auxVars>>

\* lines 126-130 (expect): entering the alternate screen fails and the main
\* thread panics; no guard exists yet
SelectEnterPanics ==
    /\ pc = "select_loop"
    /\ pc' = "panic"
    /\ UNCHANGED <<roots, tasks, opts, status_line, task, screen_cleared, process,
                   exit_status, navVars, procVars, handlerVars, termVars, auxVars>>

\* lines 443-482 with 403: the menu is drawn with the status line, the pending
\* error is printed and taken, and next_key_event enters raw mode and blocks
SelectDraw ==
    /\ pc = "select" /\ ~raw_mode
    /\ menu_status' = status_line
    /\ error' = None
    /\ raw_mode' = TRUE
    /\ UNCHANGED <<roots, tasks, mainVars, stack, key, procVars, handlerVars,
                   alt_screen, auxVars>>

\* lines 443 and 465 (the ? operator): drawing fails, select_task returns the
\* error and main returns it; _alt is dropped on the way
SelectFails ==
    /\ pc = "select" /\ ~raw_mode
    /\ pc' = "error"
    /\ stack' = <<>> /\ error' = None
    /\ alt_screen' = Dropped(alt_screen)
    /\ UNCHANGED <<roots, tasks, opts, status_line, key, task, screen_cleared,
                   process, exit_status, procVars, handlerVars, raw_mode,
                   menu_status, auxVars>>

\* lines 404-411 and 483-506: next_key_event returns a key (_raw is dropped)
\* and select_task handles it
SelectKey(ev) ==
    /\ pc = "select" /\ raw_mode
    /\ key' = ev
    /\ raw_mode' = Dropped(raw_mode)
    /\ LET current_group == stack[Len(stack)]
           ti == FindKey(current_group.tasks, ev.code[2])
           gi == FindKey(current_group.groups, ev.code[2])
       IN  IF QuitKey(ev)
           THEN /\ pc' = "done175"
                /\ stack' = <<>> /\ error' = None
                /\ UNCHANGED task
           ELSE IF ev.code = Char(" ")
           THEN /\ error' = Some(<<"Whitespace is not allowed">>)
                /\ UNCHANGED <<pc, stack, task>>
           ELSE IF ev.code \in {Backspace, Esc} /\ AtRoot(stack)
           THEN /\ error' = Some(<<"This is the root">>)
                /\ UNCHANGED <<pc, stack, task>>
           ELSE IF ev.code \in {Backspace, Esc} /\ Len(stack) > 1
           THEN /\ stack' = SubSeq(stack, 1, Len(stack) - 1)
                /\ error' = None
                /\ UNCHANGED <<pc, task>>
           ELSE IF CharKey(ev)
           THEN IF ti # 0
                THEN /\ task' = Some(current_group.tasks[ti])
                     /\ pc' = "task_loop"
                     /\ stack' = <<>> /\ error' = None
                ELSE IF gi # 0
                THEN /\ stack' = Append(stack, current_group.groups[gi])
                     /\ error' = None
                     /\ UNCHANGED <<pc, task>>
                ELSE /\ error' = Some(<<"No task for key: ", ev.code[2]>>)
                     /\ UNCHANGED <<pc, stack, task>>
           ELSE /\ error' = Some(<<"Please enter character key">>)
                /\ UNCHANGED <<pc, stack, task>>
    /\ alt_screen' = IF pc' = "select" THEN alt_screen ELSE Dropped(alt_screen)
    /\ UNCHANGED <<roots, tasks, opts, status_line, screen_cleared, process,
                   exit_status, procVars, handlerVars, menu_status, auxVars>>

-----------------------------------------------------------------------------
(* The children, as the operating system sees them                         *)

\* The most children one run of the controller spawns
MaxRuns == 2
Pids == 1..MaxRuns

\* ExitStatus values: exit code 0, a non-zero exit code, killed by SIGINT
ExitStatuses == {"exit0", "exit1", "sigint"}

\* ExitStatus::success
success(es) == es = "exit0"

\* A pid is "none" (never spawned), "running", a zombie holding its exit
\* status, or "reaped" (waited for)
ProcState(p) == IF p \in Pids THEN procs[p] ELSE "none"

\* The child ends by itself
ChildExit(p) ==
    /\ procs[p] = "running"
    /\ \E es \in {"exit0", "exit1"} : procs' = [procs EXCEPT ![p] = es]
    /\ UNCHANGED <<roots, tasks, mainVars, navVars, running_pid, handlerVars, termVars, auxVars>>

-----------------------------------------------------------------------------
(* main                                                                    *)

\* line 158: let tasks = merge_groups(read_tasks()?), and lines 160-172
Main_merge ==
    /\ pc = "start"
    /\ tasks' \in merge_groups(roots)
    /\ pc' = "select_loop"
    /\ UNCHANGED <<roots, opts, status_line, task, screen_cleared, process,
                   exit_status, navVars, procVars, handlerVars, termVars, auxVars>>

\* lines 179-182: clear the screen if asked to, spawn the child
Main_spawn ==
    /\ pc = "task_loop"
    /\ screen_cleared' = (task[1].clear \/ opts.clear)
    /\ \E p \in Pids :
          /\ procs[p] = "none"
          /\ \A q \in Pids : q < p => procs[q] # "none"
          /\ procs' = [procs EXCEPT ![p] = "running"]
          /\ process' = p
    /\ pc' = "spawned"
    /\ UNCHANGED <<roots, tasks, opts, status_line, task, exit_status, navVars,
                   running_pid, handlerVars, termVars, auxVars>>

\* line 182: create_process(task, true)? returns the error of spawn
Main_spawn_fails ==
    /\ pc = "task_loop"
    /\ screen_cleared' = (task[1].clear \/ opts.clear)
    /\ pc' = "error"
    /\ UNCHANGED <<roots, tasks, opts, status_line, task, process, exit_status,
                   navVars, procVars, handlerVars, termVars, auxVars>>

\* line 184: running_pid.store(process.id() as i32)
Main_store_pid ==
    /\ pc = "spawned"
    /\ running_pid' = process
    /\ pc' = "wait"
    /\ UNCHANGED <<roots, tasks, opts, status_line, task, screen_cleared, process,
                   exit_status, navVars, procs, handlerVars, termVars, auxVars>>

\* line 185: process.wait()? returns once the child has ended, and reaps it
Main_wait ==
    /\ pc = "wait"
    /\ procs[process] \in ExitStatuses
    /\ exit_status' = Some(procs[process])
    /\ procs' = [procs EXCEPT ![process] = "reaped"]
    /\ pc' = "waited"
    /\ UNCHANGED <<roots, tasks, opts, status_line, task, screen_cleared, process,
                   navVars, running_pid, handlerVars, termVars, auxVars>>

\* A faulty clear: the cell keeps the pid
StalePid(p) == p

\* line 186: the value stored after wait
ClearedPid(p) == 0

\* line 186: running_pid.store(0)
Main_clear_pid ==
    /\ pc = "waited"
    /\ running_pid' = ClearedPid(process)
    /\ pc' = "status"
    /\ UNCHANGED <<roots, tasks, opts, status_line, task, screen_cleared, process,
                   exit_status, navVars, procs, handlerVars, termVars, auxVars>>

\* fn format_status_line
format_status_line(t, es) ==
    IF success(es) THEN <<"Task", t.name, "completed">>
    ELSE <<"Task", t.name, "failed", es>>

\* A faulty test: the task's own confirm flag is not looked at
ShowPromptNoTaskFlag(es, t, o) == ~success(es) \/ o.confirm

\* line 190: !exit_status.success() || task.confirm || opts.confirm
ShowPrompt(es, t, o) == ~success(es) \/ t.confirm \/ o.confirm

\* A faulty end of run: the two branches swapped
AfterRunSwapped(o) == IF o.loop_mode THEN "done206" ELSE "select_loop"

\* lines 198-202: continue 'select_loop in loop mode, else break to line 206
AfterRun(o) == IF o.loop_mode THEN "select_loop" ELSE "done206"

\* lines 188-202: build the status line, then prompt or move on
Main_status ==
    /\ pc = "status"
    /\ status_line' = Some(format_status_line(task[1], exit_status[1]))
    /\ pc' = IF ShowPrompt(exit_status[1], task[1], opts) THEN "confirm"
             ELSE AfterRun(opts)
    /\ UNCHANGED <<roots, tasks, opts, task, screen_cleared, process, exit_status,
                   navVars, procVars, handlerVars, termVars, auxVars>>

\* lines 243-251: the NextAction confirm_task returns for a key, "none" for a
\* key it ignores (the loop reads the next one)
confirm_task(code) ==
    IF code = Enter THEN "Continue"
    ELSE IF code = Char("q") \/ code = Esc THEN "Exit"
    ELSE IF code = Char("r") THEN "RepeatTask"
    ELSE IF code = Char("s") THEN "SelectTask"
    ELSE "none"

\* A faulty match: Exit treated as Continue
AfterConfirmExitContinues(action, o) ==
    IF action \in {"Continue", "Exit"} THEN AfterRun(o)
    ELSE IF action = "RepeatTask" THEN "task_loop"
    ELSE IF action = "SelectTask" THEN "select_loop"
    ELSE "confirm"

\* A faulty match: SelectTask goes back to the menu in loop mode only
AfterConfirmSelectNeedsLoop(action, o) ==
    IF action \in {"Continue", "SelectTask"} /\ o.loop_mode THEN "select_loop"
    ELSE IF action \in {"Continue", "Exit", "SelectTask"} THEN "done206"
    ELSE IF action = "RepeatTask" THEN "task_loop"
    ELSE "confirm"

\* A faulty match: RepeatTask goes back to the menu
AfterConfirmRepeatSelects(action, o) ==
    IF action = "Continue" /\ o.loop_mode THEN "select_loop"
    ELSE IF action \in {"Continue", "Exit"} THEN "done206"
    ELSE IF action \in {"RepeatTask", "SelectTask"} THEN "select_loop"
    ELSE "confirm"

\* lines 191-196: where main goes for the NextAction
AfterConfirm(action, o) ==
    IF action = "Continue" /\ o.loop_mode THEN "select_loop"
    ELSE IF action \in {"Continue", "Exit"} THEN "done206"
    ELSE IF action = "RepeatTask" THEN "task_loop"
    ELSE IF action = "SelectTask" THEN "select_loop"
    ELSE "confirm"

\* lines 220-240 with 403: confirm_task prints the dialog, and next_key_event
\* enters raw mode and blocks
ConfirmPrompt ==
    /\ pc = "confirm" /\ ~raw_mode
    /\ raw_mode' = TRUE
    /\ UNCHANGED <<roots, tasks, mainVars, navVars, procVars, handlerVars,
                   alt_screen, menu_status, auxVars>>

\* lines 191-196 with 243-251: a key is read at the confirmation prompt; after
\* a key it ignores, confirm_task is back in next_key_event at once
ConfirmKey(ev) ==
    /\ pc = "confirm" /\ raw_mode
    /\ key' = ev
    /\ pc' = AfterConfirm(confirm_task(ev.code), opts)
    /\ raw_mode' = IF confirm_task(ev.code) = "none" THEN TRUE ELSE Dropped(raw_mode)
    /\ UNCHANGED <<roots, tasks, opts, status_line, task, screen_cleared, process,
                   exit_status, stack, error, procVars, handlerVars, alt_screen,
                   menu_status, auxVars>>

\* lines 403 and 408 (expect): enabling raw mode or reading the event fails
\* and the main thread panics; unwinding drops _raw and, in select_task, _alt
KeyReadPanics ==
    /\ pc \in {"select", "confirm"}
    /\ pc' = "panic"
    /\ raw_mode' = Dropped(raw_mode)
    /\ alt_screen' = Dropped(alt_screen)
    /\ stack' = <<>> /\ error' = None
    /\ UNCHANGED <<roots, tasks, opts, status_line, key, task, screen_cleared,
                   process, exit_status, procVars, handlerVars, menu_status,
                   auxVars>>

-----------------------------------------------------------------------------
(* The ctrlc handler (lines 163-169), on its own thread                    *)

\* Whether the controller process is alive
Alive == pc \notin {"done175", "done206", "error", "panic"}

\* A faulty test: pid 0 is signalled too
HandlerSendsToZero(pid) == pid >= 0

\* line 166: if pid > 0
HandlerSends(pid) == pid > 0

\* line 165: an interrupt reaches the controller, whose handler loads the cell
Handler_load ==
    /\ Alive /\ pc # "start"
    /\ hpc = "idle"
    /\ hpid' = running_pid
    /\ hpc' = "loaded"
    /\ UNCHANGED <<roots, tasks, mainVars, navVars, procVars, kills, termVars, auxVars>>

\* lines 166-168: signal::kill(pid, SIGINT).unwrap() if pid > 0. A running
\* child dies of the signal or handles it; a zombie takes it without effect; a
\* reaped pid makes kill fail, and the unwrap ends the handler thread.
Handler_kill ==
    /\ Alive
    /\ hpc = "loaded"
    /\ IF HandlerSends(hpid)
       THEN /\ kills' = kills \cup {hpid}
            /\ hpc' = IF ProcState(hpid) = "reaped" THEN "panicked" ELSE "idle"
            /\ IF ProcState(hpid) = "running"
               THEN \E st \in {"running", "sigint"} : procs' = [procs EXCEPT ![hpid] = st]
               ELSE UNCHANGED procs
       ELSE /\ hpc' = "idle"
            /\ UNCHANGED <<kills, procs>>
    /\ UNCHANGED <<roots, tasks, mainVars, navVars, running_pid, hpid, termVars,
                   auxVars>>

-----------------------------------------------------------------------------
(* Specifications                                                          *)

InitController ==
    /\ tasks = GroupDefault
    /\ pc = "start"
    /\ status_line = None
    /\ stack = <<>>
    /\ error = None
    /\ key = NoKey
    /\ task = None
    /\ screen_cleared = FALSE
    /\ process = 0
    /\ exit_status = None
    /\ running_pid = 0
    /\ procs = [p \in Pids |-> "none"]
    /\ hpc = "idle"
    /\ hpid = 0
    /\ kills = {}
    /\ raw_mode = FALSE
    /\ alt_screen = FALSE
    /\ menu_status = None

\* read_tasks, create_process and the iterator are not running
ReadIdle ==
    /\ files = {} /\ start_dir = <<>> /\ home_dir = None /\ config_dir = None
    /\ dir = None /\ rpc = "idle" /\ parsed = <<>>
EnvIdle ==
    /\ parent_env = <<>> /\ spawn_task = <<>> /\ command = <<>>
    /\ child_env = <<>> /\ epc = "idle"
IterIdle ==
    /\ config = GroupDefault /\ it_groups = <<>> /\ it_tasks = <<>>
    /\ yielded = <<>> /\ ipc = "idle"

\* The merge alone, over every list of at most MaxRoots config trees
InitMerge ==
    /\ \E n \in 0..MaxRoots : \E s \in [1..n -> RootShapes] :
          roots = [f \in 1..n |-> RootOf(s[f], f)]
    /\ opts = [confirm |-> FALSE, clear |-> FALSE, loop_mode |-> FALSE]
    /\ InitController
    /\ ReadIdle /\ EnvIdle /\ IterIdle

SpecMerge == InitMerge /\ [][Main_merge]_vars

\* Three sets of config files: none; one file (a group "foo" with two tasks,
\* an empty group and a nested group); two files that overlap.
ConfigNone == <<>>
ConfigOne ==
    <<Group(ROOT_NAME, ROOT_KEY,
            <<Group("foo", "a",
                    <<Group("empty", "a", <<>>, <<>>)>>,
                    <<Task("bar", "b", 1, FALSE, FALSE)>>)>>,
            <<Task("boo", "b", 2, TRUE, TRUE)>>)>>
ConfigTwo ==
    <<Group(ROOT_NAME, ROOT_KEY,
            <<Group("foo", "a", <<>>, <<Task("bar", "a", 1, FALSE, TRUE)>>)>>,
            <<Task("top", "b", 3, TRUE, FALSE)>>),
      Group(ROOT_NAME, ROOT_KEY,
            <<Group("foo", "a", <<Group("empty", "b", <<>>, <<>>)>>,
                    <<Task("baz", "a", 2, TRUE, FALSE)>>)>>,
            <<Task("low", "b", 4, FALSE, FALSE), Task("shadowed", "a", 5, FALSE, FALSE)>>)>>
Configs == {ConfigNone, ConfigOne, ConfigTwo}

Init ==
    /\ roots \in Configs
    /\ opts \in [confirm : BOOLEAN, clear : BOOLEAN, loop_mode : BOOLEAN]
    /\ InitController
    /\ ReadIdle /\ EnvIdle /\ IterIdle

Next ==
    \/ Main_merge
    \/ SelectEnter
    \/ SelectEnterPanics
    \/ SelectDraw
    \/ SelectFails
    \/ \E ev \in KeyEvents : SelectKey(ev)
    \/ Main_spawn
    \/ Main_spawn_fails
    \/ Main_store_pid
    \/ Main_wait
    \/ Main_clear_pid
    \/ Main_status
    \/ ConfirmPrompt
    \/ \E ev \in KeyEvents : ConfirmKey(ev)
    \/ KeyReadPanics
    \/ \E p \in Pids : ChildExit(p)
    \/ Handler_load
    \/ Handler_kill

Spec == Init /\ [][Next]_vars

-----------------------------------------------------------------------------
(* Properties of merge_groups (C1-C3), checked under SpecMerge             *)

\* Whether line 158 has run
Merged == pc # "start"

Range(seq) == {seq[i] : i \in 1..Len(seq)}
TasksWithKey(g, k) == SelectSeq(g.tasks, LAMBDA t : t.key = k)
GroupsWithKey(g, k) == SelectSeq(g.groups, LAMBDA c : c.key = k)

\* Every key a task or a group carries somewhere in the input
AllKeys == Keys \cup {"_", "NUL"}

\* The child groups with key k of the sources from the i-th on, in order
RECURSIVE Bucket(_, _, _)
Bucket(sources, k, i) ==
    IF i > Len(sources) THEN <<>>
    ELSE GroupsWithKey(sources[i], k) \o Bucket(sources, k, i + 1)

\* The earliest-wins rule for the merge of `sources` into m, and for every
\* group of m that was merged from several same-keyed child groups
RECURSIVE EarliestWins(_, _)
EarliestWins(sources, m) ==
    LET peers == SelectSeq(sources, LAMBDA g : g.name = sources[1].name
                                               /\ g.key = sources[1].key)
        n == Len(peers)
    IN  n >= 2 =>
          /\ \A k \in AllKeys :
                (/\ \E i \in 1..n : TasksWithKey(peers[i], k) # <<>>
                 /\ \A i \in 1..n : GroupsWithKey(peers[i], k) = <<>>)
                => /\ Len(TasksWithKey(m, k)) = 1
                   /\ \E i \in 1..n :
                         /\ TasksWithKey(m, k)[1] \in Range(TasksWithKey(peers[i], k))
                         /\ \A j \in 1..(i - 1) : TasksWithKey(peers[j], k) = <<>>
          /\ \A k \in AllKeys :
                Bucket(peers, k, 1) # <<>>
                => /\ Len(GroupsWithKey(m, k)) = 1
                   /\ EarliestWins(Bucket(peers, k, 1), GroupsWithKey(m, k)[1])

\* C1: when two or more roots are merged and several of them define a direct
\* child Task with the same key, and none defines a child Group with that
\* key, the merged Group holds exactly one Task with that key, the one of the
\* earliest root that defines it; the same holds inside every child Group
\* merged from several same-keyed child Groups.
C1_EarliestTaskWins == Merged => EarliestWins(roots, tasks)

\* C1 witness: two roots define task "b" with different commands and no group
\* "b", both hold a group "a" named "g" with a task "a"; the merged tree keeps
\* the first root's task at both levels.
C1_Witness ==
    /\ Merged
    /\ Len(roots) = 2
    /\ \A i \in 1..2 : /\ Len(TasksWithKey(roots[i], "b")) = 1
                       /\ GroupsWithKey(roots[i], "b") = <<>>
                       /\ Len(roots[i].groups) = 1
                       /\ roots[i].groups[1].key = "a"
                       /\ roots[i].groups[1].name = "g"
                       /\ Len(roots[i].groups[1].tasks) = 1
    /\ TasksWithKey(roots[1], "b")[1] # TasksWithKey(roots[2], "b")[1]
    /\ TasksWithKey(tasks, "b") = TasksWithKey(roots[1], "b")
    /\ Len(tasks.groups) = 1
    /\ tasks.groups[1].tasks = roots[1].groups[1].tasks

\* The keys of the direct children of g, tasks and subgroups together
ChildKeys(g) ==
    [i \in 1..(Len(g.groups) + Len(g.tasks)) |->
        IF i <= Len(g.groups) THEN g.groups[i].key ELSE g.tasks[i - Len(g.groups)].key]

Distinct(seq) == \A i, j \in 1..Len(seq) : i # j => seq[i] # seq[j]

RECURSIVE DistinctChildKeys(_)
DistinctChildKeys(g) ==
    /\ Distinct(ChildKeys(g))
    /\ \A i \in 1..Len(g.groups) : DistinctChildKeys(g.groups[i])

\* C2 as claimed: in the tree merge_groups returns, for every list of roots,
\* the direct children of every Group have pairwise-distinct keys. The code
\* returns a single root, and a single-group bucket, unchanged (line 270-272).
C2_DistinctKeys == Merged => DistinctChildKeys(tasks)

RECURSIVE NoTaskGroupClash(_)
NoTaskGroupClash(g) ==
    /\ \A i \in 1..Len(g.tasks), j \in 1..Len(g.groups) : g.tasks[i].key # g.groups[j].key
    /\ \A i \in 1..Len(g.groups) : NoTaskGroupClash(g.groups[i])

\* C3 as claimed, for the lists whose roots are each free of such a clash (so
\* that only the merge can bring one about): no Group of the merged tree has
\* a child Task and a child Group with the same key. The code keeps a Task
\* whose key a later root binds to a Group (line 282 looks only at the
\* groups registered so far).
C3_NoTaskGroupClash ==
    (Merged /\ \A i \in 1..Len(roots) : NoTaskGroupClash(roots[i]))
    => NoTaskGroupClash(tasks)

-----------------------------------------------------------------------------
(* Properties of the controller (C4-C8), checked under Spec                *)

\* A step of the main thread that leaves pc = "status": lines 188-202
StatusStep == pc = "status" /\ UNCHANGED <<procVars, handlerVars>>

\* A step in which key event ev is read at the confirmation prompt
PromptKey(ev) ==
    /\ pc = "confirm" /\ raw_mode /\ pc' # "panic"
    /\ key' = ev /\ UNCHANGED <<procVars, handlerVars>>

\* C4: after every task run, re-runs included, the confirmation prompt is
\* shown iff the exit status is not a success, or the task's confirm flag is
\* set, or the global confirm flag is set.
C4_PromptIff ==
    [][StatusStep =>
          (pc' = "confirm" <=> (\/ exit_status[1] # "exit0"
                                \/ task[1].confirm
                                \/ opts.confirm))]_vars

\* C4 witness: a re-run started with r has ended successfully and the prompt
\* is shown because of the task's own flag alone.
C4_Witness ==
    /\ pc = "confirm"
    /\ key = KeyEvent(Char("r"), {})
    /\ exit_status = Some("exit0")
    /\ task[1].confirm
    /\ ~opts.confirm

\* C5 as claimed: at the prompt Enter, q and Esc all return to selection in
\* loop mode and all exit otherwise.
C5_Original ==
    [][\A ev \in KeyEvents :
          (PromptKey(ev) /\ ev.code \in {Enter, Char("q"), Esc})
          => pc' = IF opts.loop_mode THEN "select_loop" ELSE "done206"]_vars

\* C5 amended: at the prompt Enter returns to selection in loop mode and exits
\* otherwise; q and Esc exit the program whatever loop_mode is.
C5_EnterContinuesQuitExits ==
    [][\A ev \in KeyEvents :
          PromptKey(ev) =>
             /\ ev.code = Enter
                => pc' = IF opts.loop_mode THEN "select_loop" ELSE "done206"
             /\ ev.code \in {Char("q"), Esc} => pc' = "done206"]_vars

\* C5 witness: in loop mode the program has exited at line 206, which only q
\* or Esc at the prompt brings about.
C5_Witness ==
    /\ pc = "done206"
    /\ opts.loop_mode
    /\ key.code \in {Char("q"), Esc}

\* C6: when no prompt is shown after a run, the controller goes straight back
\* to selection in loop mode and otherwise exits with Ok, reading no key.
C6_NoPromptMovesOn ==
    [][(/\ StatusStep
        /\ exit_status[1] = "exit0" /\ ~task[1].confirm /\ ~opts.confirm)
       => /\ pc' = IF opts.loop_mode THEN "select_loop" ELSE "done206"
          /\ key' = key]_vars

\* C6 witness: outside loop mode the program has exited after a successful
\* run with no confirm flag, the last key read being the one that selected
\* the task.
C6_Witness ==
    /\ pc = "done206"
    /\ ~opts.loop_mode
    /\ exit_status = Some("exit0")
    /\ ~task[1].confirm /\ ~opts.confirm
    /\ key = KeyEvent(Char(task[1].key), {})

\* C7: the handler loads the cell; with a pid loaded it signals exactly that
\* pid, with none loaded it signals nothing; no handler step moves or ends
\* the main thread; and once a child that died of the signal has been waited
\* for, the controller builds the failure status line and shows the prompt.
C7_InterruptForwarded ==
    [][/\ (hpc = "idle" /\ hpc' = "loaded")
          => hpid' = running_pid /\ UNCHANGED <<mainVars, kills, procs>>
       /\ (hpc = "loaded" /\ hpc' # "loaded")
          => /\ UNCHANGED mainVars
             /\ hpid # 0 => /\ kills' = kills \cup {hpid}
                            /\ \A p \in Pids \ {hpid} : procs'[p] = procs[p]
             /\ hpid = 0 => kills' = kills /\ procs' = procs
       /\ (StatusStep /\ exit_status[1] = "sigint")
          => /\ pc' = "confirm"
             /\ status_line' = Some(<<"Task", task[1].name, "failed", "sigint">>)]_vars

\* C7 witness: the child was signalled through the handler, died of it, and
\* the prompt is shown.
C7_Witness ==
    /\ pc = "confirm"
    /\ exit_status = Some("sigint")
    /\ process \in kills
    /\ status_line = Some(<<"Task", task[1].name, "failed", "sigint">>)

-----------------------------------------------------------------------------
(* Properties of select_task (C9, C10), checked under Spec                 *)

\* A step in which key event ev is read at the menu
MenuKey(ev) ==
    /\ pc = "select" /\ raw_mode /\ pc' # "panic"
    /\ key' = ev /\ UNCHANGED <<procVars, handlerVars>>

Top == stack[Len(stack)]

\* A key that names a child group, and no child task, of the top group
GroupKey(ev) ==
    /\ ev.code[1] = "Char" /\ ev.modifiers = {}
    /\ ev.code[2] \notin {"q", " "}
    /\ \E i \in 1..Len(Top.groups) : Top.groups[i].key = ev.code[2]
    /\ \A i \in 1..Len(Top.tasks) : Top.tasks[i].key # ev.code[2]

\* C9: Backspace or Esc at depth 1 leaves the stack as it is and sets the
\* error "This is the root"; at a greater depth it removes exactly the top
\* entry; a group key pushes one entry on the stack it found, so Backspace
\* after it restores that stack.
C9_BackspacePops ==
    [][\A ev \in KeyEvents :
          MenuKey(ev) =>
             /\ (ev.code \in {Backspace, Esc} /\ Len(stack) = 1)
                => /\ stack' = stack
                   /\ error' = Some(<<"This is the root">>)
                   /\ pc' = "select"
             /\ (ev.code \in {Backspace, Esc} /\ Len(stack) > 1)
                => /\ stack' = SubSeq(stack, 1, Len(stack) - 1)
                   /\ pc' = "select"
             /\ GroupKey(ev)
                => /\ Len(stack') = Len(stack) + 1
                   /\ SubSeq(stack', 1, Len(stack') - 1) = stack
                   /\ pc' = "select"]_vars

\* C9 witness: Backspace has brought the menu back to the root from a group
C9_Witness ==
    /\ pc = "select" /\ ~raw_mode
    /\ key.code = Backspace
    /\ stack = <<tasks>>
    /\ error = None

\* C10 as claimed: with an empty group on top, at any depth, every key
\* other than q leaves the stack unchanged and selection going.
C10_Original ==
    [][\A ev \in KeyEvents :
          (MenuKey(ev) /\ is_empty(Top) /\ ev.code # Char("q"))
          => stack' = stack /\ pc' = "select"]_vars

\* C10 amended: with an empty group on top, q ends selection, Backspace or
\* Esc at a depth greater than 1 removes the top entry, and every other key
\* press leaves the stack unchanged and selection going.
C10_EmptyGroupKeys ==
    [][\A ev \in KeyEvents :
          (MenuKey(ev) /\ is_empty(Top))
          => IF ev.code = Char("q") THEN pc' = "done175"
             ELSE IF ev.code \in {Backspace, Esc} /\ Len(stack) > 1
             THEN stack' = SubSeq(stack, 1, Len(stack) - 1) /\ pc' = "select"
             ELSE stack' = stack /\ pc' = "select"]_vars

\* C10 witness: below the root, on an empty group, a key other than q and
\* Backspace was pressed and the menu is still on that group
C10_Witness ==
    /\ pc = "select"
    /\ Len(stack) > 1
    /\ is_empty(Top)
    /\ key.code = Char(" ")
    /\ error = Some(<<"Whitespace is not allowed">>)

-----------------------------------------------------------------------------
(* Group-over-task shadowing in one merge_groups call (C15), under SpecMerge *)

\* Whether root i holds a child group with key k
HasGroup(i, k) == GroupsWithKey(roots[i], k) # <<>>

\* Whether the j-th task of root i is in the merged root
Kept(i, j) == roots[i].tasks[j] \in Range(tasks.tasks)

\* Whether no task before the j-th task of root i, in list order, has its key
FirstWithKey(i, j) ==
    /\ \A j2 \in 1..(j - 1) : roots[i].tasks[j2].key # roots[i].tasks[j].key
    /\ \A i2 \in 1..(i - 1) : TasksWithKey(roots[i2], roots[i].tasks[j].key) = <<>>

\* C15 as claimed: in a merge of two or more peers a child Task with key k
\* is dropped exactly when a child Group with key k belongs to the same peer
\* or to an earlier one.
C15_Original ==
    (Merged /\ Len(roots) >= 2)
    => \A i \in 1..Len(roots) : \A j \in 1..Len(roots[i].tasks) :
          ~Kept(i, j) <=> \E i2 \in 1..i : HasGroup(i2, roots[i].tasks[j].key)

\* C15 amended: in a merge of two or more peers a child Task with key k that
\* no earlier Task with key k precedes is dropped exactly when a child Group
\* with key k belongs to the same peer or to an earlier one; when the only
\* Groups with key k belong to later peers, that Task is kept and the merged
\* Group holds both the Task and a Group with key k.
C15_GroupShadowsLaterTask ==
    (Merged /\ Len(roots) >= 2)
    => \A i \in 1..Len(roots) : \A j \in 1..Len(roots[i].tasks) :
          FirstWithKey(i, j)
          => LET k == roots[i].tasks[j].key IN
             /\ ~Kept(i, j) <=> \E i2 \in 1..i : HasGroup(i2, k)
             /\ (/\ \A i2 \in 1..i : ~HasGroup(i2, k)
                 /\ \E i2 \in (i + 1)..Len(roots) : HasGroup(i2, k))
                => Kept(i, j) /\ GroupsWithKey(tasks, k) # <<>>

\* C15 witness: the first root holds task "a" and no group "a", the second
\* holds a group "a" and a task "a"; the merged root holds the first root's
\* task and the group, and not the second root's task.
C15_Witness ==
    /\ Merged
    /\ Len(roots) = 2
    /\ Len(roots[1].tasks) = 1 /\ roots[1].tasks[1].key = "a"
    /\ ~HasGroup(1, "a") /\ HasGroup(2, "a")
    /\ Len(roots[2].tasks) = 1 /\ roots[2].tasks[1].key = "a"
    /\ Kept(1, 1) /\ ~Kept(2, 1)
    /\ GroupsWithKey(tasks, "a") # <<>>

-----------------------------------------------------------------------------
(* Control-modified keys at the menu (C16), under Spec                     *)

\* C16: a character key other than q and space whose modifiers include
\* Control, alone or with other modifiers, selects no task and pushes no
\* group: the stack stays as it is and selection goes on. (The claim adds
\* that the error "Please enter character key" is set; that part needs this
\* one.)
C16_ControlNeverSelects ==
    [][\A ev \in KeyEvents :
          (/\ MenuKey(ev)
           /\ ev.code[1] = "Char" /\ ev.code[2] \notin {"q", " "}
           /\ "CONTROL" \in ev.modifiers)
          => /\ stack' = stack
             /\ pc' = "select"]_vars

-----------------------------------------------------------------------------
(* The handler against the main thread's wait (C18), under Spec            *)

\* C18: whenever the handler sends the signal (its kill step with a pid
\* loaded), the child with that pid has not been reaped. (The claim adds that
\* the child is still running; that part needs this one.)
C18_NoSignalToReaped ==
    [][(hpc = "loaded" /\ hpc' # "loaded" /\ hpid > 0)
          => ProcState(hpid) # "reaped"]_vars

-----------------------------------------------------------------------------
(* s at the confirmation prompt (C13), under Spec                          *)

\* A step in which select_task draws the menu
DrawStep == pc = "select" /\ ~raw_mode /\ raw_mode'

\* C13: s at the prompt sends the controller to selection in loop mode and
\* out of it alike, with the status line of the run just finished; and every
\* menu drawn after a run prints the status line of the latest run.
C13_SelectAnotherShowsStatus ==
    [][/\ PromptKey(KeyEvent(Char("s"), {}))
          => /\ pc' = "select_loop"
             /\ status_line' = Some(format_status_line(task[1], exit_status[1]))
       /\ (DrawStep /\ exit_status # None)
          => menu_status' = Some(format_status_line(task[1], exit_status[1]))]_vars

\* C13 witness: outside loop mode, s was pressed at the prompt after a failed
\* run and the menu is on the screen with that run's status line
C13_Witness ==
    /\ pc = "select" /\ raw_mode
    /\ ~opts.loop_mode
    /\ key.code = Char("s")
    /\ exit_status = Some("exit1")
    /\ menu_status = Some(<<"Task", task[1].name, "failed", "exit1">>)

-----------------------------------------------------------------------------
(* r at the confirmation prompt (C14), under Spec                          *)

\* A step in which the main thread spawns a child
SpawnStep == pc = "task_loop" /\ pc' = "spawned"

\* A step in which process.wait() returns
WaitStep == pc = "wait" /\ pc' = "waited"

\* C14: r at the prompt takes the controller to the top of the run steps with
\* the same task, not to the menu; each spawn clears the screen iff the task's
\* or the global clear flag is set, happens when no child is running, and
\* starts a child that did not exist; the wait yields the status of that new
\* child, and the prompt is shown iff that status is a failure or a confirm
\* flag is set.
C14_RepeatRunsAgain ==
    [][/\ PromptKey(KeyEvent(Char("r"), {}))
          => pc' = "task_loop" /\ task' = task /\ stack' = stack
       /\ SpawnStep
          => /\ screen_cleared' = (task[1].clear \/ opts.clear)
             /\ task' = task
             /\ \A p \in Pids : procs[p] \in {"none", "reaped"}
             /\ procs[process'] = "none" /\ procs'[process'] = "running"
       /\ WaitStep
          => /\ procs[process] \in ExitStatuses
             /\ exit_status' = Some(procs[process])
       /\ StatusStep
          => (pc' = "confirm"
                <=> (exit_status[1] # "exit0" \/ task[1].confirm \/ opts.confirm))]_vars

\* C14 witness: after r at the prompt the same task has run a second time,
\* with the screen cleared, and the second child's failure is prompted for
C14_Witness ==
    /\ pc = "confirm"
    /\ key.code = Char("r")
    /\ process = 2
    /\ procs[1] = "reaped" /\ procs[2] = "reaped"
    /\ screen_cleared
    /\ exit_status = Some("exit1")
    /\ ~task[1].confirm /\ ~opts.confirm

-----------------------------------------------------------------------------
(* The shape of the navigation stack (C20), under Spec                     *)

\* s is a path of groups from the merged root down
RootedPath(s) ==
    /\ Len(s) >= 1
    /\ s[1] = tasks
    /\ \A i \in 2..Len(s) : s[i] \in Range(s[i - 1].groups)

\* C20: while select_task runs, its stack is a non-empty path of groups from
\* the merged root, each entry a direct child of the one below; every call of
\* select_task starts with the stack [root]; and a task it returns is a direct
\* child task of the group that was on top when the key was pressed.
C20_StackIsRootedPath ==
    [][/\ pc = "select" => RootedPath(stack)
       /\ pc' = "select" => RootedPath(stack')
       /\ (pc = "select_loop" /\ pc' = "select") => stack' = <<tasks>>
       /\ \A ev \in KeyEvents :
             (MenuKey(ev) /\ pc' = "task_loop")
             => task' # None /\ task'[1] \in Range(Top.tasks)]_vars

\* C20 witness: after a run, in a later call of select_task, the menu is two
\* levels deep: in a child group of a child group of the merged root
C20_Witness ==
    /\ pc = "select"
    /\ Len(stack) = 3
    /\ stack[1] = tasks
    /\ stack[2] \in Range(tasks.groups)
    /\ stack[3] \in Range(stack[2].groups)
    /\ exit_status # None

-----------------------------------------------------------------------------
(* The terminal modes (C19), under Spec                                    *)

\* C19: raw mode is on only while the main thread is blocked in a key read
\* (at the menu or at the prompt), the alternate screen only while select_task
\* is showing the menu; while a child is running and once the program has
\* ended (returned Ok, returned an error or panicked) both are off.
C19_TerminalModesScoped ==
    /\ raw_mode => pc \in {"select", "confirm"}
    /\ alt_screen => pc = "select"
    /\ ((\E p \in Pids : procs[p] = "running") \/ ~Alive)
       => ~raw_mode /\ ~alt_screen

\* C19 witness: after a run and s at the prompt the menu was drawn, with the
\* run's status line, and the key read panicked: both modes are off
C19_Witness ==
    /\ pc = "panic"
    /\ key.code = Char("s")
    /\ menu_status # None /\ menu_status = status_line
    /\ ~raw_mode /\ ~alt_screen

-----------------------------------------------------------------------------
(* create_process and the environment of the child (lines 370-400)         *)

ctrlVars == <<roots, tasks, mainVars, navVars, procVars, handlerVars, termVars>>

\* Names and values of environment variables
EnvNames == {"FOO", "HOME"}
EnvValues == {"bar", "baz"}

\* HashMap<String, String>, and the environment of a process
Envs == UNION {[D -> EnvValues] : D \in SUBSET EnvNames}

\* line 373: Command::new inherits the environment and sets no variable
CommandNew == [clear |-> FALSE, vars |-> <<>>]

\* A faulty env_clear: nothing is cleared
env_keep(c) == c

\* line 394: Command::env_clear
env_clear(c) == [clear |-> TRUE, vars |-> <<>>]

\* line 397: Command::envs inserts every entry, replacing a variable already set
envs(c, e) == [c EXCEPT !.vars = e @@ c.vars]

\* line 399: the environment spawn gives the child: the variables set on the
\* Command over the environment of the parent, or alone after env_clear
captured_env(c, penv) == IF c.clear THEN c.vars ELSE c.vars @@ penv

\* lines 371-391: the Command is created
Env_new ==
    /\ epc = "new"
    /\ command' = CommandNew
    /\ epc' = "built"
    /\ UNCHANGED <<ctrlVars, readVars, iterVars, parent_env, spawn_task, child_env>>

\* lines 393-395: if task.clear_env { child.env_clear(); }
Env_clear ==
    /\ epc = "built"
    /\ command' = IF spawn_task.clear_env THEN env_clear(command) ELSE command
    /\ epc' = "cleared"
    /\ UNCHANGED <<ctrlVars, readVars, iterVars, parent_env, spawn_task, child_env>>

\* line 397: child.envs(&task.env)
Env_envs ==
    /\ epc = "cleared"
    /\ command' = envs(command, spawn_task.env)
    /\ epc' = "ready"
    /\ UNCHANGED <<ctrlVars, readVars, iterVars, parent_env, spawn_task, child_env>>

\* line 399: child.spawn() succeeds
Env_spawn ==
    /\ epc = "ready"
    /\ child_env' = Some(captured_env(command, parent_env))
    /\ epc' = "spawned"
    /\ UNCHANGED <<ctrlVars, readVars, iterVars, parent_env, spawn_task, command>>

\* line 399: child.spawn()? returns the error
Env_spawn_fails ==
    /\ epc = "ready"
    /\ epc' = "error"
    /\ UNCHANGED <<ctrlVars, readVars, iterVars, parent_env, spawn_task, command,
                   child_env>>

\* create_process alone, over every environment and task of the universe
InitEnv ==
    /\ parent_env \in Envs
    /\ spawn_task \in [env : Envs, clear_env : BOOLEAN]
    /\ command = <<>> /\ child_env = None /\ epc = "new"
    /\ roots = <<>>
    /\ opts = [confirm |-> FALSE, clear |-> FALSE, loop_mode |-> FALSE]
    /\ InitController
    /\ ReadIdle /\ IterIdle

NextEnv ==
    \/ Env_new
    \/ Env_clear
    \/ Env_envs
    \/ Env_spawn
    \/ Env_spawn_fails

SpecEnv == InitEnv /\ [][NextEnv]_vars

-----------------------------------------------------------------------------
(* The environment of the child (C12), under SpecEnv                       *)

\* C12: the child sees exactly the variables of the task's env, each with the
\* task's value, and, unless clear_env is set, the variables of the controller
\* that env does not name, each with the controller's value.
C12_ChildEnv ==
    epc = "spawned" =>
        LET child == child_env[1]
            inherited == IF spawn_task.clear_env THEN {} ELSE DOMAIN parent_env
        IN  /\ DOMAIN child = DOMAIN spawn_task.env \cup inherited
            /\ \A n \in DOMAIN spawn_task.env : child[n] = spawn_task.env[n]
            /\ \A n \in inherited \ DOMAIN spawn_task.env : child[n] = parent_env[n]

\* C12 witness: clear_env with env = {FOO: bar} under a controller that has
\* FOO and HOME: the child has FOO=bar and nothing else
C12_Witness ==
    /\ epc = "spawned"
    /\ spawn_task.clear_env
    /\ DOMAIN parent_env = {"FOO", "HOME"} /\ parent_env["FOO"] = "baz"
    /\ DOMAIN spawn_task.env = {"FOO"} /\ spawn_task.env["FOO"] = "bar"
    /\ DOMAIN child_env[1] = {"FOO"} /\ child_env[1]["FOO"] = "bar"

-----------------------------------------------------------------------------
(* Group::iter_mut, TaskIterator and the working_dir rewrite of            *)
(* tasks_from_file (lines 82-114, 324-330)                                 *)

\* A Path: absolute or relative, with its components
Path(abs, parts) == [abs |-> abs, parts |-> parts]

\* Path::join: an absolute argument replaces the path
join(p, q) == IF q.abs THEN q ELSE Path(p.abs, p.parts \o q.parts)

\* line 324: path.parent() of the parsed file, here /u/p/.ttr.yaml
ContextDir == Path(TRUE, <<"u", "p">>)

\* The working_dir values of the tasks of a file: none, relative, absolute
RelDir == Path(FALSE, <<"w">>)
AbsDir == Path(TRUE, <<"opt">>)
WorkingDirs == <<None, Some(RelDir), Some(AbsDir)>>

\* A Task of the file, with the fields the rewrite reads; its name is its
\* place in the tree
WTask(name, working_dir) == [name |-> name, working_dir |-> working_dir]

\* A &mut Group is the path of child indices that leads to it from the
\* iterated group, a &mut Task a group path with an index in its tasks
RECURSIVE GroupAt(_, _)
GroupAt(g, path) ==
    IF path = <<>> THEN g ELSE GroupAt(g.groups[Head(path)], Tail(path))

TaskAt(g, ref) == GroupAt(g, ref[1]).tasks[ref[2]]

\* line 328: the assignment to task.working_dir through the &mut Task
RECURSIVE SetWorkingDir(_, _, _, _)
SetWorkingDir(g, path, j, wd) ==
    IF path = <<>> THEN [g EXCEPT !.tasks[j].working_dir = wd]
    ELSE [g EXCEPT !.groups[Head(path)] = SetWorkingDir(@, Tail(path), j, wd)]

\* A faulty next: the child groups of a popped group are not pushed
RECURSIVE NextShallow(_, _, _)
NextShallow(g, gs, ts) ==
    IF ts # <<>>
    THEN [item |-> Some(ts[Len(ts)]), groups |-> gs,
          tasks |-> SubSeq(ts, 1, Len(ts) - 1)]
    ELSE IF gs = <<>>
    THEN [item |-> None, groups |-> gs, tasks |-> ts]
    ELSE LET path == gs[Len(gs)]
             group == GroupAt(g, path)
         IN  NextShallow(g, SubSeq(gs, 1, Len(gs) - 1),
                         ts \o [j \in 1..Len(group.tasks) |-> <<path, j>>])

\* TaskIterator::next (lines 102-113) on the stacks gs and ts: the item
\* returned and the stacks it leaves
RECURSIVE next(_, _, _)
next(g, gs, ts) ==
    IF ts # <<>>
    THEN [item |-> Some(ts[Len(ts)]), groups |-> gs,
          tasks |-> SubSeq(ts, 1, Len(ts) - 1)]
    ELSE IF gs = <<>>
    THEN [item |-> None, groups |-> gs, tasks |-> ts]
    ELSE LET path == gs[Len(gs)]
             group == GroupAt(g, path)
         IN  next(g,
                  SubSeq(gs, 1, Len(gs) - 1)
                     \o [i \in 1..Len(group.groups) |-> Append(path, i)],
                  ts \o [j \in 1..Len(group.tasks) |-> <<path, j>>])

\* lines 82-87: config.iter_mut()
Iter_start ==
    /\ ipc = "parsed"
    /\ it_groups' = <<<<>>>>
    /\ it_tasks' = <<>>
    /\ ipc' = "iter"
    /\ UNCHANGED <<ctrlVars, readVars, envVars, config, yielded>>

\* lines 326-330: the iterator yields a task, whose working_dir, if any, is
\* joined to the directory of the file
Iter_task ==
    /\ ipc = "iter"
    /\ LET r == next(config, it_groups, it_tasks)
       IN  /\ r.item # None
           /\ it_groups' = r.groups
           /\ it_tasks' = r.tasks
           /\ yielded' = Append(yielded, r.item[1])
           /\ LET t == TaskAt(config, r.item[1])
              IN  config' = IF t.working_dir # None
                            THEN SetWorkingDir(config, r.item[1][1], r.item[1][2],
                                               Some(join(ContextDir, t.working_dir[1])))
                            ELSE config
    /\ UNCHANGED <<ctrlVars, readVars, envVars, ipc>>

\* line 326: the iterator returns None and the loop ends
Iter_end ==
    /\ ipc = "iter"
    /\ LET r == next(config, it_groups, it_tasks)
       IN  /\ r.item = None
           /\ it_groups' = r.groups
           /\ it_tasks' = r.tasks
    /\ ipc' = "done"
    /\ UNCHANGED <<ctrlVars, readVars, envVars, config, yielded>>

\* The tasks of the group at path: n of them, their working_dir values
\* going round WorkingDirs from an offset
FileTasks(path, n, off) ==
    [j \in 1..n |-> WTask(<<path, j>>, WorkingDirs[((Len(path) + j + off) % 3) + 1])]

\* A child group with n tasks and, for sub = 1 or 2, one child group of its
\* own with sub - 1 tasks
ChildGroup(i, kid, off) ==
    Group("child", "c",
          IF kid.sub = 0 THEN <<>>
          ELSE <<Group("grandchild", "g", <<>>, FileTasks(<<i, 1>>, kid.sub - 1, off))>>,
          FileTasks(<<i>>, kid.n, off))

\* The parsed files: a root with up to 2 tasks and up to 2 child groups
FileShapes ==
    [n : 0..2,
     kids : UNION {[1..c -> [n : 0..2, sub : 0..2]] : c \in 0..2}]

FileGroup(shape, off) ==
    Group(ROOT_NAME, ROOT_KEY,
          [i \in 1..Len(shape.kids) |-> ChildGroup(i, shape.kids[i], off)],
          FileTasks(<<>>, shape.n, off))

\* The iteration alone, over every parsed file of the universe
InitIter ==
    /\ \E shape \in FileShapes : \E off \in 0..2 : config = FileGroup(shape, off)
    /\ it_groups = <<>> /\ it_tasks = <<>> /\ yielded = <<>> /\ ipc = "parsed"
    /\ roots = <<>>
    /\ opts = [confirm |-> FALSE, clear |-> FALSE, loop_mode |-> FALSE]
    /\ InitController
    /\ ReadIdle /\ EnvIdle

NextIter ==
    \/ Iter_start
    \/ Iter_task
    \/ Iter_end

SpecIter == InitIter /\ [][NextIter]_vars

-----------------------------------------------------------------------------
(* The iteration over a parsed file (C17), under SpecIter                  *)

\* Every group of the subtree of g, which is at path
RECURSIVE GroupPaths(_, _)
GroupPaths(g, path) ==
    {path} \cup UNION {GroupPaths(g.groups[i], Append(path, i)) : i \in 1..Len(g.groups)}

\* Every task contained anywhere in config
AllTasks ==
    UNION {{<<path, j>> : j \in 1..Len(GroupAt(config, path).tasks)} :
              path \in GroupPaths(config, <<>>)}

\* Depth-first, last first: the tasks of g from the last to the first, then
\* the subtrees of its child groups from the last to the first
RECURSIVE LastFirst(_, _), LastFirstFrom(_, _, _)
LastFirst(g, path) ==
    [j \in 1..Len(g.tasks) |-> <<path, Len(g.tasks) + 1 - j>>]
        \o LastFirstFrom(g, path, Len(g.groups))
LastFirstFrom(g, path, i) ==
    IF i = 0 THEN <<>>
    ELSE LastFirst(g.groups[i], Append(path, i)) \o LastFirstFrom(g, path, i - 1)

\* C17: the iterator never yields a task twice and yields only tasks of the
\* tree; when it ends it has yielded every task of the subtree, depth-first
\* with a later sibling group's tasks before an earlier one's, and no task of
\* the tree is left with a relative working_dir.
C17_IterReachesEveryTask ==
    /\ Distinct(yielded)
    /\ Range(yielded) \subseteq AllTasks
    /\ ipc = "done"
       => /\ Range(yielded) = AllTasks
          /\ yielded = LastFirst(config, <<>>)
          /\ \A ref \in AllTasks :
                TaskAt(config, ref).working_dir
                   \in {None, Some(AbsDir), Some(join(ContextDir, RelDir))}

\* C17 witness: a root with a task and two child groups, the second with a
\* task of its own and a task in a child group: all four tasks of the second
\* group's subtree and of the root were yielded before the first group's
C17_Witness ==
    /\ ipc = "done"
    /\ Len(config.groups) = 2 /\ Len(config.tasks) = 1
    /\ yielded = <<<< <<>>, 1 >>, << <<2>>, 1 >>, << <<2, 1>>, 1 >>, << <<1>>, 1 >>>>
    /\ \E ref \in AllTasks : TaskAt(config, ref).working_dir = Some(join(ContextDir, RelDir))

-----------------------------------------------------------------------------
(* read_tasks: the search for config files (lines 334-367)                 *)

\* An absolute directory path is the sequence of its components; "/" is <<>>.
\* A config file is named by the directory that holds it (TTR_CONFIG is the
\* one file name).
Dirs ==
    {<<>>, <<"u">>, <<"u", "ttr">>, <<"u", "ttr", "p">>, <<"u", ".config">>,
     <<"u", ".config", "ttr">>, <<"w">>}

\* The values of dirs::home_dir() and dirs::config_dir() (the second is
\* $XDG_CONFIG_HOME if set, else .config under the home directory)
HomeDirs == {None, Some(<<>>), Some(<<"u">>), Some(<<"u", "ttr">>)}
ConfigDirs == {None, Some(<<"u", ".config">>), Some(<<"u">>)}

\* Path::parent
parent(d) == IF d = <<>> THEN None ELSE Some(SubSeq(d, 1, Len(d) - 1))

\* Path::is_file of d.join(TTR_CONFIG)
is_file(d) == d \in files

\* line 336: dirs::home_dir().unwrap_or(PathBuf::from("/"))
stop_dir == IF home_dir = None THEN <<>> ELSE home_dir[1]

\* A faulty test: the walk does not stop at the home directory
NeverAtStop(d, stop) == FALSE

\* line 341: if d == stop_dir
AtStop(d, stop) == d = stop

\* lines 352-354: the directory of the home config file, if it is a file
home_dir_config ==
    IF home_dir # None /\ is_file(home_dir[1]) THEN home_dir ELSE None

\* lines 360-362: the directory of the per-user config file, if it is a file
config_dir_config ==
    IF config_dir # None /\ is_file(Append(config_dir[1], "ttr"))
    THEN Some(Append(config_dir[1], "ttr")) ELSE None

\* lines 334-338: the walk starts at the current directory
Read_start ==
    /\ rpc = "start"
    /\ dir' = Some(start_dir)
    /\ rpc' = "walk"
    /\ UNCHANGED <<ctrlVars, envVars, iterVars, files, start_dir, home_dir,
                   config_dir, parsed>>

\* lines 340-349: one turn of the walk, at a directory that is not stop_dir
Read_walk ==
    /\ rpc = "walk"
    /\ dir # None /\ ~AtStop(dir[1], stop_dir)
    /\ parsed' = IF is_file(dir[1]) THEN Append(parsed, dir[1]) ELSE parsed
    /\ dir' = parent(dir[1])
    /\ UNCHANGED <<ctrlVars, envVars, iterVars, files, start_dir, home_dir,
                   config_dir, rpc>>

\* lines 340-343: the walk ends at stop_dir (break) or above "/"
Read_walk_end ==
    /\ rpc = "walk"
    /\ IF dir = None THEN TRUE ELSE AtStop(dir[1], stop_dir)
    /\ rpc' = "home"
    /\ UNCHANGED <<ctrlVars, envVars, iterVars, files, start_dir, home_dir,
                   config_dir, dir, parsed>>

\* lines 351-357: the config file of the home directory
Read_home ==
    /\ rpc = "home"
    /\ parsed' = IF home_dir_config # None THEN Append(parsed, home_dir_config[1])
                 ELSE parsed
    /\ rpc' = "config"
    /\ UNCHANGED <<ctrlVars, envVars, iterVars, files, start_dir, home_dir,
                   config_dir, dir>>

\* lines 359-367: the config file of the per-user config directory; Ok(tasks)
Read_config ==
    /\ rpc = "config"
    /\ parsed' = IF config_dir_config # None THEN Append(parsed, config_dir_config[1])
                 ELSE parsed
    /\ rpc' = "done"
    /\ UNCHANGED <<ctrlVars, envVars, iterVars, files, start_dir, home_dir,
                   config_dir, dir>>

\* lines 346, 356, 364 (the ? operator): tasks_from_file fails on a file that
\* is there, and read_tasks returns the error
Read_fails ==
    /\ IF rpc = "walk"
       THEN dir # None /\ ~AtStop(dir[1], stop_dir) /\ is_file(dir[1])
       ELSE IF rpc = "home" THEN home_dir_config # None
       ELSE rpc = "config" /\ config_dir_config # None
    /\ rpc' = "failed"
    /\ UNCHANGED <<ctrlVars, envVars, iterVars, files, start_dir, home_dir,
                   config_dir, dir, parsed>>

\* read_tasks alone, over every placement of the config files, the current
\* directory, the home directory and the config directory
InitRead ==
    /\ files \in SUBSET Dirs
    /\ start_dir \in Dirs
    /\ home_dir \in HomeDirs
    /\ config_dir \in ConfigDirs
    /\ dir = None /\ rpc = "start" /\ parsed = <<>>
    /\ roots = <<>>
    /\ opts = [confirm |-> FALSE, clear |-> FALSE, loop_mode |-> FALSE]
    /\ InitController
    /\ EnvIdle /\ IterIdle

NextRead ==
    \/ Read_start
    \/ Read_walk
    \/ Read_walk_end
    \/ Read_home
    \/ Read_config
    \/ Read_fails

SpecRead == InitRead /\ [][NextRead]_vars

-----------------------------------------------------------------------------
(* The home tier of read_tasks (C11), under SpecRead                       *)

\* d is p or below it
Below(d, p) == Len(d) >= Len(p) /\ SubSeq(d, 1, Len(p)) = p

\* The directories from d up to "/", d first
RECURSIVE Ancestors(_)
Ancestors(d) == IF d = <<>> THEN <<d>> ELSE <<d>> \o Ancestors(SubSeq(d, 1, Len(d) - 1))

\* With a home directory known, the config files the walk passes: those of
\* the current directory and of its ancestors, from the nearest, and strictly
\* below the home directory when the current directory is inside it
WalkRoots ==
    SelectSeq(Ancestors(start_dir),
              LAMBDA d : /\ d \in files
                         /\ home_dir # None /\ Below(start_dir, home_dir[1])
                            => Below(d, home_dir[1]) /\ d # home_dir[1])

\* The places in the returned list of the roots parsed from the file of d
RootsOf(d) == {i \in 1..Len(parsed) : parsed[i] = d}

\* The home directory holds a config file and read_tasks has returned Ok
HomeFileRead == rpc = "done" /\ home_dir # None /\ home_dir[1] \in files

\* The root of the home file has its place: after the roots of the walk and
\* before the root of the per-user config directory, which is last
HomeTierPlaced ==
    /\ SubSeq(parsed, 1, Len(WalkRoots)) = WalkRoots
    /\ parsed[Len(WalkRoots) + 1] = home_dir[1]
    /\ Len(parsed) = Len(WalkRoots) + 1 + Len(config_dir_config)
    /\ config_dir_config # None => parsed[Len(parsed)] = config_dir_config[1]

\* C11 as claimed: wherever the current directory is, when the home directory
\* holds a config file the returned list has exactly one root parsed from it,
\* after every root of the walk and before the root of the config directory.
C11_Original ==
    HomeFileRead => Cardinality(RootsOf(home_dir[1])) = 1 /\ HomeTierPlaced

\* What read_tasks does for the home file: its root always has that place;
\* it is the only root parsed from the home file unless the per-user config
\* file is the home file itself (the config directory's application folder is
\* the home directory), and then the list ends with a second root parsed
\* from it.
C11_HomeTierOnce ==
    HomeFileRead =>
        /\ HomeTierPlaced
        /\ config_dir_config # home_dir => Cardinality(RootsOf(home_dir[1])) = 1
        /\ config_dir_config = home_dir
           => RootsOf(home_dir[1]) = {Len(parsed) - 1, Len(parsed)}

\* From a directory two levels inside the home directory, with a file there,
\* one at home and one in the config directory
C11_Witness ==
    /\ rpc = "done"
    /\ home_dir = Some(<<"u">>) /\ config_dir = Some(<<"u", ".config">>)
    /\ start_dir = <<"u", "ttr", "p">>
    /\ parsed = <<<<"u", "ttr", "p">>, <<"u">>, <<"u", ".config", "ttr">>>>

-----------------------------------------------------------------------------
(* No file parsed twice by read_tasks (C21), under SpecRead                *)

\* C21, for the current directories it names first and the default place of
\* the config directory (.config under the home directory): when read_tasks
\* returns from a current directory that is the application folder of the
\* per-user config directory or lies below it, no two roots of the returned
\* list are parsed from the same file.
C21_NoFileTwice ==
    (/\ rpc = "done"
     /\ home_dir # None /\ config_dir = Some(Append(home_dir[1], ".config"))
     /\ Below(start_dir, Append(config_dir[1], "ttr")))
    => Distinct(parsed)
====
